---- MODULE Spec2Model ----
(***************************************************************************)
(* Model of generate-common.py: scan a directory of .rs files for          *)
(* templated type declarations, promote frequently used ones to common.rs  *)
(* and remove promoted and lowercase-named declarations from their files.  *)
(*                                                                         *)
(* File text is a sequence of tokens.  Each token stands for a fixed piece *)
(* of text; offsets (start_pos, end_pos) are 0-based token offsets, end    *)
(* exclusive, as Python's match.start()/match.end().                       *)
(*   NL      "\n"                                                          *)
(*   CMT n   "// n ..."                                                    *)
(*   ATTR    "\n" + the five #[cfg_attr(...)] lines + "pub struct W {"     *)
(*   PLAIN   "\npub struct W {"           (no annotation header)           *)
(*   FIELD   "\n\tpub f: <type>,"         (type = wrappers around a name)  *)
(*   CLOSE   "\n}"                                                         *)
(*   FOOT    "\n}\n\nimpl W {\n\tpub fn validate(..) {\n\t\tOk(())\n\t}\n}"*)
(***************************************************************************)
EXTENDS Integers, Sequences, FiniteSets, TLC

(* ---------------------------- bounds ----------------------------------- *)
MaxRuns == 2
MaxThreshold == 2
MaxBlocks == 2

(* ---------------------------- tokens ----------------------------------- *)
NL == [k |-> "NL", n |-> "", w |-> <<>>]
CMT(name) == [k |-> "CMT", n |-> name, w |-> <<>>]
ATTR == [k |-> "ATTR", n |-> "", w |-> <<>>]
PLAIN == [k |-> "PLAIN", n |-> "", w |-> <<>>]
FIELD(wrap, name) == [k |-> "FIELD", n |-> name, w |-> wrap]
CLOSE == [k |-> "CLOSE", n |-> "", w |-> <<>>]
FOOT == [k |-> "FOOT", n |-> "", w |-> <<>>]

UpperNames == {"A", "B"}
LowerNames == {"a"}
Names == UpperNames \cup LowerNames

\* str.isupper() on the first character of the declared name
IsUpper(name) == name \in UpperNames

\* Python's string order on the names, used by sorted()
NameRank(name) == CASE name = "A" -> 1 [] name = "B" -> 2 [] OTHER -> 3

COMMON == "common.rs"
SourceFiles == {"x.rs", "y.rs"}
FileNames == SourceFiles \cup {COMMON}
Absent == <<[k |-> "ABSENT", n |-> "", w |-> <<>>]>>

(* ------------------------ Python string helpers ------------------------ *)
\* s[a:b] with 0-based offsets
Slice(s, a, b) == SubSeq(s, a + 1, b)

RECURSIVE RStripNL(_)
\* s.rstrip('\n')
RStripNL(s) ==
    IF s # <<>> /\ s[Len(s)] = NL THEN RStripNL(SubSeq(s, 1, Len(s) - 1)) ELSE s

RECURSIVE JoinNL(_)
\* '\n'.join(parts)
JoinNL(parts) ==
    IF parts = <<>> THEN <<>>
    ELSE IF Len(parts) = 1 THEN parts[1]
    ELSE parts[1] \o <<NL>> \o JoinNL(Tail(parts))

Range(s) == {s[i] : i \in 1..Len(s)}

(* --------------------------- type_pattern ------------------------------ *)
\* the header "\n\n// name ...\n#[cfg_attr...]...pub struct W" at 0-based offset i
HeaderAt(s, i) ==
    /\ i + 4 <= Len(s)
    /\ s[i + 1] = NL
    /\ s[i + 2] = NL
    /\ s[i + 3].k = "CMT"
    /\ s[i + 4] = ATTR

\* 1-based indexes j of a closing idiom "\t\tOk(())\n\t}\n}\n" after the header at i
FooterIdx(s, i) ==
    {j \in (i + 5)..(Len(s) - 1) : s[j] = FOOT /\ s[j + 1] = NL}

Min(S) == CHOOSE m \in S : \A o \in S : m <= o

RECURSIVE FindIter(_, _)
\* type_pattern.finditer(content) from offset pos: leftmost, non-greedy,
\* non-overlapping matches as [start_pos, end_pos, name]
FindIter(s, pos) ==
    IF pos + 4 > Len(s) THEN <<>>
    ELSE IF HeaderAt(s, pos) /\ FooterIdx(s, pos) # {}
         THEN LET e == Min(FooterIdx(s, pos)) + 1
              IN  <<[start_pos |-> pos, end_pos |-> e, name |-> s[pos + 3].n]>>
                  \o FindIter(s, e)
         ELSE FindIter(s, pos + 1)

(* ------------------------ type_usage_patterns -------------------------- *)
\* the four forms base_usage_pattern accepts after the colon
UsageForms == {<<>>, <<"Option">>, <<"Vec">>, <<"Option", "Vec">>}

\* extract_type: the last word of the type string
extract_type(tok) == tok.n

IsUsage(tok) == tok.k = "FIELD" /\ tok.w \in UsageForms

\* type_usages: one base type per matching field line
type_usages(s) ==
    LET picked == SelectSeq(s, IsUsage)
    IN  [i \in 1..Len(picked) |-> extract_type(picked[i])]

\* list.count(x)
Count(s, x) == Cardinality({i \in 1..Len(s) : s[i] = x})

(* ------------------------------ state ---------------------------------- *)
VARIABLES
    disk,              \* file name -> content on disk (Absent if the file does not exist)
    listing,           \* the order in which os.listdir returns the .rs files
    typecount,         \* args.typecount
    unreadable,        \* files whose open(..., 'r') raises
    unwritable,        \* files whose open(..., 'w') raises
    pc,                \* position of main
    run,               \* number of the current run of main
    type_locations,    \* uppercase StructMatch objects in scan order
    file_contents,     \* file name -> content read by the scan (Absent if not read)
    lowercase_matches, \* lowercase StructMatch objects in scan order
    frequent_types,    \* what print_summary returned
    file_positions,    \* remove_duplicates' per-file list of spans, in dict order
    fp_idx,            \* number of entries of file_positions already processed
    rc,                \* main's return value
    disk0,             \* the disk when the current run started
    wlog               \* the writes of the current run, in order: [file, by]

vars == <<disk, listing, typecount, unreadable, unwritable, pc, run, type_locations,
          file_contents, lowercase_matches, frequent_types, file_positions, fp_idx,
          rc, disk0, wlog>>

env == <<listing, typecount, unreadable, unwritable>>

(* -------------------------- initial directories ------------------------ *)
\* a templated declaration block, as the code generator emits them
TBlock(name, body) == <<NL, NL, CMT(name), ATTR>> \o body \o <<FOOT, NL>>
\* a templated declaration without the trailing impl block
OpenDecl(name) == <<NL, NL, CMT(name), ATTR, CLOSE, NL>>
\* a declaration without the five annotation lines
PlainDecl(name, body) == <<NL, NL, CMT(name), PLAIN>> \o body \o <<FOOT, NL>>

Pieces ==
    { TBlock("A", <<FIELD(<<>>, "A")>>),
      TBlock("B", <<FIELD(<<"Option", "Vec">>, "A")>>),
      TBlock("B", <<FIELD(<<"Vec", "Option">>, "B")>>),
      TBlock("a", <<FIELD(<<"Vec">>, "B")>>),
      OpenDecl("a"),
      PlainDecl("B", <<FIELD(<<>>, "A")>>) }

RECURSIVE Contents(_)
\* the texts made of at most n pieces
Contents(n) ==
    IF n = 0 THEN {<<>>}
    ELSE Contents(n - 1) \cup {c \o p : c \in Contents(n - 1), p \in Pieces}

XContents == Contents(MaxBlocks)
YContents == {<<>>, TBlock("A", <<>>), TBlock("a", <<>>)}
CommonContents ==
    { Absent,
      <<NL>> \o TBlock("A", <<FIELD(<<>>, "A")>>) \o <<NL>>,
      <<NL>> \o TBlock("B", <<>>) \o TBlock("a", <<>>) }

Listings == { <<"x.rs", "y.rs", COMMON>>, <<COMMON, "y.rs", "x.rs">> }

\* at most one file fails, either on reading or on writing
Faults == { <<{}, {}>>, <<{"x.rs"}, {}>>, <<{}, {"x.rs"}>>, <<{}, {COMMON}>> }

NoFrequent == [isNone |-> TRUE, keys |-> <<>>]
NoContents == [f \in FileNames |-> Absent]

Init ==
    /\ disk \in {d \in [FileNames -> XContents \cup YContents \cup CommonContents] :
                    /\ d["x.rs"] \in XContents
                    /\ d["y.rs"] \in YContents
                    /\ d[COMMON] \in CommonContents}
    /\ listing \in Listings
    /\ typecount \in 0..MaxThreshold
    /\ \E ft \in Faults : unreadable = ft[1] /\ unwritable = ft[2]
    /\ pc = "scan"
    /\ run = 1
    /\ type_locations = <<>>
    /\ file_contents = NoContents
    /\ lowercase_matches = <<>>
    /\ frequent_types = NoFrequent
    /\ file_positions = <<>>
    /\ fp_idx = 0
    /\ rc = 0
    /\ disk0 = disk
    /\ wlog = <<>>

(* --------------------------- scan_rust_files --------------------------- *)
\* rust_files: the listed files that exist
rust_files == SelectSeq(listing, LAMBDA f : disk[f] # Absent)

\* the StructMatch objects of one file, in match order
FileMatches(filename, content) ==
    LET ms == FindIter(content, 0)
        usages == type_usages(content)
    IN  [i \in 1..Len(ms) |->
            [filename |-> filename,
             name |-> ms[i].name,
             content |-> Slice(content, ms[i].start_pos, ms[i].end_pos),
             start_pos |-> ms[i].start_pos,
             end_pos |-> ms[i].end_pos,
             usage_count |-> IF IsUpper(ms[i].name) THEN Count(usages, ms[i].name) ELSE 0]]

RECURSIVE ScanMatches(_, _)
\* all StructMatch objects of the readable files, in scan order
ScanMatches(files, d) ==
    IF files = <<>> THEN <<>>
    ELSE (IF Head(files) \in unreadable THEN <<>> ELSE FileMatches(Head(files), d[Head(files)]))
         \o ScanMatches(Tail(files), d)

scan_rust_files ==
    /\ pc = "scan"
    /\ LET all == ScanMatches(rust_files, disk)
       IN  /\ type_locations' = SelectSeq(all, LAMBDA m : IsUpper(m.name))
           /\ lowercase_matches' = SelectSeq(all, LAMBDA m : ~IsUpper(m.name))
    /\ file_contents' = [f \in FileNames |->
                            IF f \in Range(rust_files) /\ f \notin unreadable
                            THEN disk[f] ELSE Absent]
    /\ pc' = "summary"
    /\ UNCHANGED <<disk, env, run, frequent_types, file_positions, fp_idx, rc, disk0, wlog>>

(* ----------------------------- print_summary --------------------------- *)
RECURSIVE DictKeys(_, _)
\* the keys of a dict filled in the order of ks, in insertion order
DictKeys(ks, seen) ==
    IF ks = <<>> THEN <<>>
    ELSE IF Head(ks) \in seen THEN DictKeys(Tail(ks), seen)
         ELSE <<Head(ks)>> \o DictKeys(Tail(ks), seen \cup {Head(ks)})

\* type_locations.keys()
LocationKeys(locs) == DictKeys([i \in 1..Len(locs) |-> locs[i].name], {})

\* type_locations[name]
MatchesOf(locs, name) == SelectSeq(locs, LAMBDA m : m.name = name)

RECURSIVE SumUsage(_)
\* sum(match.usage_count for match in matches)
SumUsage(ms) == IF ms = <<>> THEN 0 ELSE Head(ms).usage_count + SumUsage(Tail(ms))

\* the filter with a strict comparison
IsFrequent_strict(locs, name, tc) == SumUsage(MatchesOf(locs, name)) > tc

\* the comprehension's filter: sum of the usage counts >= typecount
IsFrequent(locs, name, tc) == SumUsage(MatchesOf(locs, name)) >= tc

\* the keys of the dict print_summary builds
FrequentKeys(locs, tc) ==
    SelectSeq(LocationKeys(locs), LAMBDA name : IsFrequent(locs, name, tc))

\* print_summary's return value: None when no type is frequent
SummaryResult(locs, tc) ==
    IF FrequentKeys(locs, tc) = <<>> THEN NoFrequent
    ELSE [isNone |-> FALSE, keys |-> FrequentKeys(locs, tc)]

\* main, lines 223-229: call print_summary and branch on its result
print_summary ==
    /\ pc = "summary"
    /\ LET ft == SummaryResult(type_locations, typecount)
       IN  /\ frequent_types' = ft
           /\ pc' = IF ~ft.isNone THEN "generate"
                    ELSE IF lowercase_matches # <<>> THEN "remove"
                    ELSE "done"
    /\ rc' = 0
    /\ UNCHANGED <<disk, env, run, type_locations, file_contents, lowercase_matches,
                   file_positions, fp_idx, disk0, wlog>>

(* -------------------------- generate_common_file ----------------------- *)
\* re.findall(r'// (\w+) \.\.\.\n', content): a comment line followed by a newline
ExistingStructs(s) ==
    {s[i].n : i \in {j \in 1..(Len(s) - 1) : s[j].k = "CMT" /\ s[j + 1].k # "CMT"}}

\* read_existing_common when the file can be opened or does not exist
read_existing_common(d) ==
    IF d[COMMON] = Absent THEN [types |-> {}, content |-> <<>>]
    ELSE [types |-> ExistingStructs(d[COMMON]), content |-> d[COMMON]]

RECURSIVE SortedNames(_)
\* sorted() on a set of names
SortedNames(S) ==
    IF S = {} THEN <<>>
    ELSE LET m == CHOOSE x \in S : \A y \in S : NameRank(x) <= NameRank(y)
         IN  <<m>> \o SortedNames(S \ {m})

\* the sorted promoted names that common.rs does not have yet
NewNames(keys, existing) ==
    SelectSeq(SortedNames(Range(keys)), LAMBDA name : name \notin existing)

\* the text generate_common_file writes
CommonText(locs, keys, d) ==
    LET ex == read_existing_common(d)
        add == NewNames(keys, ex.types)
    IN  JoinNL(<<RStripNL(ex.content)>>
               \o [i \in 1..Len(add) |-> RStripNL(MatchesOf(locs, add[i])[1].content)]
               \o <<(<<NL>>)>>)

\* the write of common.rs with its failure swallowed
generate_common_file_swallow ==
    /\ pc = "generate"
    /\ IF (disk[COMMON] # Absent /\ COMMON \in unreadable) \/ COMMON \in unwritable
       THEN UNCHANGED <<disk, wlog>>
       ELSE /\ disk' = [disk EXCEPT ![COMMON] =
                            CommonText(type_locations, frequent_types.keys, disk)]
            /\ wlog' = Append(wlog, [file |-> COMMON, by |-> "generate_common_file"])
    /\ pc' = "remove"
    /\ rc' = rc
    /\ UNCHANGED <<env, run, type_locations, file_contents, lowercase_matches,
                   frequent_types, file_positions, fp_idx, disk0>>

\* main, lines 229-244: read the seed types and write common.rs
generate_common_file ==
    /\ pc = "generate"
    /\ IF (disk[COMMON] # Absent /\ COMMON \in unreadable) \/ COMMON \in unwritable
       THEN /\ rc' = 1
            /\ pc' = "done"
            /\ UNCHANGED <<disk, wlog>>
       ELSE /\ disk' = [disk EXCEPT ![COMMON] =
                            CommonText(type_locations, frequent_types.keys, disk)]
            /\ wlog' = Append(wlog, [file |-> COMMON, by |-> "generate_common_file"])
            /\ pc' = "remove"
            /\ rc' = rc
    /\ UNCHANGED <<env, run, type_locations, file_contents, lowercase_matches,
                   frequent_types, file_positions, fp_idx, disk0>>

(* ---------------------------- remove_duplicates ------------------------ *)
RECURSIVE FlattenMatches(_, _)
\* the matches of the promoted names, name by name in dict order
FlattenMatches(locs, keys) ==
    IF keys = <<>> THEN <<>>
    ELSE MatchesOf(locs, Head(keys)) \o FlattenMatches(locs, Tail(keys))

\* the per-file span lists, in the order the files enter the dict
FilePositions(locs, keys, lower) ==
    LET all == FlattenMatches(locs, keys) \o lower
        files == DictKeys([i \in 1..Len(all) |-> all[i].filename], {})
    IN  [i \in 1..Len(files) |->
            LET mine == SelectSeq(all, LAMBDA m : m.filename = files[i])
            IN  [filename |-> files[i],
                 positions |-> [j \in 1..Len(mine) |-> <<mine[j].start_pos, mine[j].end_pos>>]]]

\* tuple order on (start, end)
PairLess(p, q) == p[1] < q[1] \/ (p[1] = q[1] /\ p[2] < q[2])

\* the spans left in the order they were added
SortReverse_unsorted(ps) == ps

RECURSIVE SortReverse(_)
\* positions.sort(reverse=True)
SortReverse(ps) ==
    IF ps = <<>> THEN <<>>
    ELSE LET i == CHOOSE a \in 1..Len(ps) :
                     \A b \in 1..Len(ps) : ~PairLess(ps[a], ps[b]) /\ (ps[a] = ps[b] => a <= b)
         IN  <<ps[i]>> \o SortReverse(SubSeq(ps, 1, i - 1) \o SubSeq(ps, i + 1, Len(ps)))

RECURSIVE Splice(_, _)
\* new_content = new_content[:start] + new_content[end:], span after span
Splice(content, ps) ==
    IF ps = <<>> THEN content
    ELSE Splice(Slice(content, 0, Head(ps)[1]) \o Slice(content, Head(ps)[2], Len(content)),
                Tail(ps))

\* the content remove_duplicates computes for one file
NewContent(content, positions) == Splice(content, SortReverse(positions))

\* lines 113-122: build the spans; duplicate_structs.values() raises on None
remove_duplicates ==
    /\ pc = "remove"
    /\ IF frequent_types.isNone
       THEN /\ rc' = 1
            /\ pc' = "done"
            /\ UNCHANGED <<file_positions, fp_idx>>
       ELSE /\ file_positions' =
                   FilePositions(type_locations, frequent_types.keys, lowercase_matches)
            /\ fp_idx' = 0
            /\ pc' = "rewrite"
            /\ rc' = rc
    /\ UNCHANGED <<disk, env, run, type_locations, file_contents, lowercase_matches,
                   frequent_types, disk0, wlog>>

\* lines 126-140: one iteration of the loop over file_positions
rewrite_file ==
    /\ pc = "rewrite"
    /\ fp_idx < Len(file_positions)
    /\ LET entry == file_positions[fp_idx + 1]
           content == file_contents[entry.filename]
           new_content == NewContent(content, entry.positions)
       IN  IF new_content # content /\ entry.filename \in unwritable
           THEN /\ rc' = 1
                /\ pc' = "done"
                /\ UNCHANGED <<disk, wlog, fp_idx>>
           ELSE /\ IF new_content # content
                   THEN /\ disk' = [disk EXCEPT ![entry.filename] = new_content]
                        /\ wlog' = Append(wlog, [file |-> entry.filename, by |-> "remove_duplicates"])
                   ELSE UNCHANGED <<disk, wlog>>
                /\ fp_idx' = fp_idx + 1
                /\ UNCHANGED <<pc, rc>>
    /\ UNCHANGED <<env, run, type_locations, file_contents, lowercase_matches,
                   frequent_types, file_positions, disk0>>

\* main, lines 248-257: the loop is over, return 0
finish ==
    /\ pc = "rewrite"
    /\ fp_idx = Len(file_positions)
    /\ pc' = "done"
    /\ rc' = 0
    /\ UNCHANGED <<disk, env, run, type_locations, file_contents, lowercase_matches,
                   frequent_types, file_positions, fp_idx, disk0, wlog>>

\* the tool is started again on the directory it left, with the same arguments
next_run ==
    /\ pc = "done"
    /\ run < MaxRuns
    /\ run' = run + 1
    /\ pc' = "scan"
    /\ type_locations' = <<>>
    /\ file_contents' = NoContents
    /\ lowercase_matches' = <<>>
    /\ frequent_types' = NoFrequent
    /\ file_positions' = <<>>
    /\ fp_idx' = 0
    /\ rc' = 0
    /\ disk0' = disk
    /\ wlog' = <<>>
    /\ UNCHANGED <<disk, env>>

Next ==
    \/ scan_rust_files
    \/ print_summary
    \/ generate_common_file
    \/ remove_duplicates
    \/ rewrite_file
    \/ finish
    \/ next_run

Spec == Init /\ [][Next]_vars

(* ======================= properties of the runs ======================== *)
NoFaults == unreadable = {} /\ unwritable = {}

\* the text of a file, the empty text for a file that does not exist
TextOf(d, f) == IF d[f] = Absent THEN <<>> ELSE d[f]

\* the matched declarations of a text, as their texts in order
Decls(s) ==
    LET ms == FindIter(s, 0)
    IN  [i \in 1..Len(ms) |-> Slice(s, ms[i].start_pos, ms[i].end_pos)]

\* the names of the matched declarations of a text, in order
DeclNames(s) ==
    LET ms == FindIter(s, 0)
    IN  [i \in 1..Len(ms) |-> ms[i].name]

IsPrefix(s, t) == Len(s) <= Len(t) /\ SubSeq(t, 1, Len(s)) = s

NoRepeat(s) == \A i, j \in 1..Len(s) : s[i] = s[j] => i = j

\* the tokens of a text that lie outside every span, in their order
KeepOutside(content, spans) ==
    LET keep == {i \in 1..Len(content) : \A p \in spans : ~(p[1] < i /\ i <= p[2])}
        RECURSIVE pick(_)
        pick(i) == IF i > Len(content) THEN <<>>
                   ELSE (IF i \in keep THEN <<content[i]>> ELSE <<>>) \o pick(i + 1)
    IN  pick(1)

RECURSIVE SumLen(_)
SumLen(ps) == IF ps = <<>> THEN 0 ELSE (Head(ps)[2] - Head(ps)[1]) + SumLen(Tail(ps))

\* the spans of the promoted and of the lowercase matches of one file
PlannedSpans(f) ==
    {<<m.start_pos, m.end_pos>> :
        m \in {x \in Range(type_locations) :
                  x.filename = f /\ x.name \in Range(frequent_types.keys)}
              \cup {x \in Range(lowercase_matches) : x.filename = f}}

\* C1: after a complete run, a second run with the same threshold changes no
\* file and plans no deletion.
C1_SecondRunChangesNothing ==
    (NoFaults /\ run = 2 /\ pc = "done") => (disk = disk0 /\ file_positions = <<>>)

\* C2: a run keeps every declaration of common.rs, unmodified and in order,
\* only appends declarations, and never leaves two declarations of one name.
C2_CommonOnlyGrows ==
    (NoFaults /\ pc = "done") =>
        /\ IsPrefix(Decls(TextOf(disk0, COMMON)), Decls(TextOf(disk, COMMON)))
        /\ NoRepeat(DeclNames(TextOf(disk, COMMON)))

\* C3: at the end of a run every lowercase-named matched declaration has been
\* removed from its file, whatever the threshold and however many types qualify.
C3_ViolationsRemoved ==
    (NoFaults /\ pc = "done") =>
        \A i \in 1..Len(lowercase_matches) :
            LET f == lowercase_matches[i].filename
            IN  disk[f] = KeepOutside(file_contents[f], PlannedSpans(f))

\* C4: at the end of a run common.rs holds a declaration of every name that
\* the run promoted.
C4_PromotedKept ==
    (NoFaults /\ pc = "done" /\ rc = 0) =>
        \A i \in 1..Len(frequent_types.keys) :
            frequent_types.keys[i] \in Range(DeclNames(TextOf(disk, COMMON)))

\* the recognised field references to a name in a text, counted directly
FieldRefs(content, name) ==
    Cardinality({i \in 1..Len(content) :
                    /\ content[i].k = "FIELD"
                    /\ content[i].n = name
                    /\ content[i].w \in UsageForms})

RECURSIVE TotalRefs(_, _)
\* over the matched occurrences of a name, the references in each one's own file
TotalRefs(locs, name) ==
    IF locs = <<>> THEN 0
    ELSE (IF Head(locs).name = name
          THEN FieldRefs(file_contents[Head(locs).filename], name) ELSE 0)
         + TotalRefs(Tail(locs), name)

Summarised == pc \in {"generate", "remove", "rewrite", "done"}

Promoted(name) == name \in Range(frequent_types.keys)

MatchedUpper == {type_locations[i].name : i \in 1..Len(type_locations)}

\* C5: a matched uppercase-named type is promoted exactly when the sum over its
\* occurrences of the field references in the occurrence's own file reaches the
\* threshold.
C5_PromotionRule ==
    Summarised =>
        /\ \A name \in MatchedUpper :
              Promoted(name) <=> TotalRefs(type_locations, name) >= typecount
        /\ \A name \in Range(frequent_types.keys) : name \in MatchedUpper

C5_Witness ==
    /\ pc = "generate"
    /\ typecount = 1
    /\ \E name \in MatchedUpper :
          /\ Promoted(name)
          /\ TotalRefs(type_locations, name) = 1
          /\ Len(MatchesOf(type_locations, name)) = 2
    /\ \E name \in MatchedUpper :
          ~Promoted(name) /\ TotalRefs(type_locations, name) = 0

\* C6: a file whose write fails does not keep the other files with planned
\* deletions from being rewritten.
C6_FailureIsolation ==
    (pc = "done" /\ file_positions # <<>>) =>
        \A i \in 1..Len(file_positions) :
            LET e == file_positions[i]
            IN  e.filename \notin unwritable =>
                    disk[e.filename] = NewContent(file_contents[e.filename], e.positions)

PlainCount(s) == Cardinality({i \in 1..Len(s) : s[i] = PLAIN})

\* C7: a declaration without the annotation header is still in its file after
\* the run.
C7_PlainUntouched ==
    (NoFaults /\ pc = "done") =>
        \A f \in FileNames : PlainCount(TextOf(disk, f)) >= PlainCount(TextOf(disk0, f))

\* C8: common.rs is opened for writing at most once in a run.
C8_CommonWrittenOnce ==
    Cardinality({i \in 1..Len(wlog) : wlog[i].file = COMMON}) <= 1

\* the orders in which a list of spans can have been filled
Perms(ps) ==
    {[i \in 1..Len(ps) |-> ps[f[i]]] :
        f \in {g \in [1..Len(ps) -> 1..Len(ps)] : \A a, b \in 1..Len(ps) : g[a] = g[b] => a = b}}

\* C9: the spans planned for a file are the promoted and the lowercase matches,
\* pairwise disjoint and without repetition; the content computed is the scanned
\* content without them, whatever the order they were added in.
C9_PlanSound ==
    \A i \in 1..Len(file_positions) :
        LET e == file_positions[i]
            content == file_contents[e.filename]
            spans == Range(e.positions)
        IN  /\ NoRepeat(e.positions)
            /\ spans = PlannedSpans(e.filename)
            /\ \A p \in spans : 0 <= p[1] /\ p[1] < p[2] /\ p[2] <= Len(content)
            /\ \A p, q \in spans : p # q => (p[2] <= q[1] \/ q[2] <= p[1])
            /\ NewContent(content, e.positions) = KeepOutside(content, spans)
            /\ Len(NewContent(content, e.positions)) = Len(content) - SumLen(e.positions)
            /\ \A perm \in Perms(e.positions) :
                  NewContent(content, perm) = NewContent(content, e.positions)
            /\ i <= fp_idx => disk[e.filename] = KeepOutside(content, spans)

C9_Witness ==
    /\ pc = "done"
    /\ rc = 0
    /\ \E i \in 1..Len(file_positions) :
          LET ps == file_positions[i].positions
          IN  /\ Len(ps) >= 2
              /\ ps[1][1] < ps[2][1]
              /\ file_positions[i].filename \in SourceFiles
              /\ \E j \in 1..Len(wlog) : wlog[j].file = file_positions[i].filename

\* C10: when a type is promoted, generate_common_file has written common.rs
\* before remove_duplicates writes any file; when that write raises, the run
\* returns 1 and has changed no source file.
C10_PromoteBeforeDelete ==
    /\ \A i \in 1..Len(wlog) :
          wlog[i].by = "remove_duplicates" =>
              \E j \in 1..(i - 1) : wlog[j] = [file |-> COMMON, by |-> "generate_common_file"]
    /\ (pc \in {"remove", "rewrite", "done"} /\ ~frequent_types.isNone /\ COMMON \in unwritable) =>
          /\ pc = "done"
          /\ rc = 1
          /\ \A f \in SourceFiles : disk[f] = disk0[f]

C10_Witness ==
    /\ pc = "done"
    /\ ~frequent_types.isNone
    /\ Len(wlog) >= 2
    /\ wlog[1] = [file |-> COMMON, by |-> "generate_common_file"]
    /\ wlog[2].by = "remove_duplicates"
    /\ wlog[2].file \in SourceFiles

\* the write of common.rs raised while deletions were planned
C10_FailureSeen ==
    /\ pc = "done"
    /\ ~frequent_types.isNone
    /\ COMMON \in unwritable
    /\ lowercase_matches # <<>>

====
